---- MODULE Spec2Model ----
(***************************************************************************)
(* NumbersInLove: the "sum to ten" grid game.  The controller follows       *)
(* src/unnamed/part_000, the variant with makeInitialGrid, MAX_LEVEL and a *)
(* restart button; the grid functions and handleCellClick are the same in  *)
(* src/src/App.tsx.                                                        *)
(*                                                                         *)
(* A Grid is a JavaScript array of row arrays.  The functions that build   *)
(* or change grids are modelled over an explicit heap (a sequence of       *)
(* arrays, an address being an index into it), so that copying and         *)
(* in-place assignment are different things.  The React state of App holds *)
(* the content of the current grid; a handler loads it into a heap, runs   *)
(* its code there and stores the content of the grid it passes to setGrid. *)
(*                                                                         *)
(* Spec: the controller, a handler with the renders and effects it causes  *)
(* being one step.  SpecSimple: the controller of src/src/App.tsx.         *)
(* SpecTimer: the controller with the render of an effect's setGrid as a   *)
(* step of its own.  SpecPairs, SpecRebuild: single calls of the grid      *)
(* functions.                                                              *)
(***************************************************************************)
EXTENDS Integers, Sequences, FiniteSets, TLC

VARIABLES
  numberOfRows,     \* useState(5)
  numberOfColumns,  \* useState(5)
  level,            \* useState(1)
  grid,             \* useState<Grid>: content of the current grid
  selectedCell,     \* useState<CellIndex | undefined>
  call,             \* harness: one call of a grid function, with its heaps
  timer             \* the live interval and the setGrid calls not yet rendered

vars == <<numberOfRows, numberOfColumns, level, grid, selectedCell, call, timer>>

----------------------------------------------------------------------------
(* Bounds of the exploration *)

\* boards of at most MaxRows rows and at most MaxCells cells are explored
MaxRows == 2
MaxCells == 4
\* levels 1..MaxLevelExplored are explored
MaxLevelExplored == 2
\* levels 1..MaxLevelSimple are explored in the controller of src/src/App.tsx
MaxLevelSimple == 4
\* at most MaxQueued setGrid calls wait for a render
MaxQueued == 2
\* the harness passes the pair counts 0..MaxNumPairs (and none) to addRandomPairs
MaxNumPairs == 2

----------------------------------------------------------------------------
(* Values *)

\* the `undefined` of an empty GridCell; distinct from the token 0
Undefined == 0 - 1

\* the `undefined` of selectedCell
NoCell == [row |-> Undefined, column |-> Undefined]

CellIndex(r, c) == [row |-> r, column |-> c]

isEmpty(cell) == cell = Undefined

\* the outcomes of Math.floor(Math.random() * 6) that are explored (of 0..5)
FirstNums == {0, 5}

MAX_LEVEL == 10
\* the last option of the level select of src/src/App.tsx
SIMPLE_MAX_LEVEL == 3
PairsPerLevel == 3

Min(a, b) == IF a < b THEN a ELSE b
Max(a, b) == IF a > b THEN a ELSE b

----------------------------------------------------------------------------
(* The heap: a sequence of arrays; the address of an array is its index.   *)
(* A grid object is the address of an array of addresses of row arrays.    *)

\* the content of the grid object at address g: a sequence of rows of cells
View(h, g) == [i \in 1..Len(h[g]) |-> h[h[g][i]]]

\* a heap holding exactly one grid object with the content gridValue
LoadGrid(gridValue) ==
  LET n == Len(gridValue)
  IN [heap |-> Append(gridValue, [i \in 1..n |-> i]), ref |-> n + 1]

\* newGrid[pos.row][pos.column] = value
SetCell(h, g, pos, value) ==
  LET rowAddr == h[g][pos.row + 1]
  IN [h EXCEPT ![rowAddr] = [@ EXCEPT ![pos.column + 1] = value]]

\* grid[row][column] of a grid content, for indices inside the grid
CellAt(gridValue, row, column) == gridValue[row + 1][column + 1]

----------------------------------------------------------------------------
(* Grid functions *)

makeEmptyGrid(h, rows, columns) ==
  LET rowArray == [j \in 1..columns |-> Undefined]
      h1 == h \o [i \in 1..rows |-> rowArray]
  IN [heap |-> Append(h1, [i \in 1..rows |-> Len(h) + i]),
      ref |-> Len(h) + rows + 1]

\* Array(n) throws a RangeError for a negative n; Array(rows) is built first,
\* and Array(columns) once for each of its elements
makeEmptyGridThrows(rows, columns) == rows < 0 \/ (rows > 0 /\ columns < 0)

\* [...grid] in place of the deep copy: a new outer array of the same rows
deepCopy_shallow(h, g) ==
  [heap |-> Append(h, h[g]), ref |-> Len(h) + 1]

\* grid.map((row) => [...row]): a new outer array of new row arrays
deepCopy(h, g) ==
  LET n == Len(h[g])
      h1 == h \o [i \in 1..n |-> h[h[g][i]]]
  IN [heap |-> Append(h1, [i \in 1..n |-> Len(h) + i]), ref |-> Len(h) + n + 1]

\* the empty positions of the grid, in row-major order
availableSpaces(h, g) ==
  LET numberOfRows_ == Len(h[g])
      numberOfColumns_ == Len(h[h[g][1]])
      all == [k \in 1..(numberOfRows_ * numberOfColumns_) |->
                CellIndex((k - 1) \div numberOfColumns_, (k - 1) % numberOfColumns_)]
  IN SelectSeq(all, LAMBDA p : isEmpty(h[h[g][p.row + 1]][p.column + 1]))

RECURSIVE PermutationsOf(_)
PermutationsOf(S) ==
  IF S = {} THEN {<< >>}
  ELSE UNION {{<<x>> \o p : p \in PermutationsOf(S \ {x})} : x \in S}

\* the orders of 1..n, for n up to the largest board explored
IndexOrders == [n \in 0..(MaxCells + 1) |-> PermutationsOf(1..n)]

\* availableSpaces.sort(() => Math.random() - 0.5): any order of the spaces
Shuffles(spaces) ==
  {[i \in 1..Len(spaces) |-> spaces[p[i]]] : p \in IndexOrders[Len(spaces)]}

\* numPairs ?? Math.floor(availableSpaces.length / 2)
numPairsToAdd(numPairs, spaces) ==
  IF numPairs = Undefined THEN Len(spaces) \div 2 ELSE numPairs

\* the iterations of the loop that draw a firstNum
Draws(numPairs, spaces) ==
  {pair \in 0..(numPairsToAdd(numPairs, spaces) - 1) : pair * 2 + 1 < Len(spaces)}

\* placePairs with secondNum = 9 - firstNum
RECURSIVE placePairs_offByOne(_, _, _, _, _, _)
placePairs_offByOne(h, newGrid, shuffled, nums, pair, toAdd) ==
  IF ~(pair < toAdd) THEN h
  ELSE LET i == pair * 2 IN
       IF i + 1 < Len(shuffled)
       THEN LET firstNum == nums[pair]
                secondNum == 9 - firstNum
                firstPos == shuffled[i + 1]
                secondPos == shuffled[i + 2]
                h1 == SetCell(h, newGrid, firstPos, firstNum)
                h2 == SetCell(h1, newGrid, secondPos, secondNum)
            IN placePairs_offByOne(h2, newGrid, shuffled, nums, pair + 1, toAdd)
       ELSE placePairs_offByOne(h, newGrid, shuffled, nums, pair + 1, toAdd)

\* placePairs with i + 2 < availableSpaces.length as the test for room
RECURSIVE placePairs_stopsShort(_, _, _, _, _, _)
placePairs_stopsShort(h, newGrid, shuffled, nums, pair, toAdd) ==
  IF ~(pair < toAdd) THEN h
  ELSE LET i == pair * 2 IN
       IF i + 2 < Len(shuffled)
       THEN LET firstNum == nums[pair]
                secondNum == 10 - firstNum
                firstPos == shuffled[i + 1]
                secondPos == shuffled[i + 2]
                h1 == SetCell(h, newGrid, firstPos, firstNum)
                h2 == SetCell(h1, newGrid, secondPos, secondNum)
            IN placePairs_stopsShort(h2, newGrid, shuffled, nums, pair + 1, toAdd)
       ELSE placePairs_stopsShort(h, newGrid, shuffled, nums, pair + 1, toAdd)

RECURSIVE placePairs(_, _, _, _, _, _)
placePairs(h, newGrid, shuffled, nums, pair, toAdd) ==
  IF ~(pair < toAdd) THEN h
  ELSE LET i == pair * 2 IN
       IF i + 1 < Len(shuffled)
       THEN LET firstNum == nums[pair]
                secondNum == 10 - firstNum
                firstPos == shuffled[i + 1]
                secondPos == shuffled[i + 2]
                h1 == SetCell(h, newGrid, firstPos, firstNum)
                h2 == SetCell(h1, newGrid, secondPos, secondNum)
            IN placePairs(h2, newGrid, shuffled, nums, pair + 1, toAdd)
       ELSE placePairs(h, newGrid, shuffled, nums, pair + 1, toAdd)

\* shuffled: the outcome of the sort; nums: the firstNum drawn in each iteration
addRandomPairs(h, g, numPairs, shuffled, nums) ==
  LET copy == deepCopy(h, g)
      toAdd == numPairsToAdd(numPairs, shuffled)
  IN [heap |-> IF toAdd > 0
               THEN placePairs(copy.heap, copy.ref, shuffled, nums, 0, toAdd)
               ELSE copy.heap,
      ref |-> copy.ref]

\* makeInitialGrid asking for level pairs instead of 3 * level
makeInitialGrid_onePerLevel(h, rows, columns, lvl, shuffled, nums) ==
  LET empty == makeEmptyGrid(h, rows, columns)
  IN addRandomPairs(empty.heap, empty.ref, lvl, shuffled, nums)

makeInitialGrid(h, rows, columns, lvl, shuffled, nums) ==
  LET empty == makeEmptyGrid(h, rows, columns)
  IN addRandomPairs(empty.heap, empty.ref, PairsPerLevel * lvl, shuffled, nums)

\* isWon with !cell as the test for an empty cell: the token 0 counts as empty
isWon_zeroIsEmpty(gridValue) ==
  \A i \in 1..Len(gridValue) : \A j \in 1..Len(gridValue[i]) :
    gridValue[i][j] = Undefined \/ gridValue[i][j] = 0

isWon(gridValue) ==
  \A i \in 1..Len(gridValue) : \A j \in 1..Len(gridValue[i]) : isEmpty(gridValue[i][j])

----------------------------------------------------------------------------
(* App: the controller *)

NoCall == [fn |-> "none"]

\* the timer is not followed: every step includes the renders and effects it causes
NoTimer == [grid |-> << >>, queue |-> << >>]

\* the boards explored, in place of the 3..20 rows and 3..14 columns the
\* selectors offer
Boards == {b \in (1..MaxRows) \X (1..MaxCells) : b[1] * b[2] <= MaxCells}
RowChoices(columns) == {r \in 1..MaxRows : <<r, columns>> \in Boards}
ColumnChoices(rows) == {c \in 1..MaxCells : <<rows, c>> \in Boards}

\* the options of the level selector, up to the levels explored
LevelChoices == 1..Min(MAX_LEVEL, MaxLevelExplored)

\* the contents makeInitialGrid(rows, columns, lvl) can return, over every
\* outcome of the shuffle and of the draws
initialGrids(rows, columns, lvl) ==
  LET empty == makeEmptyGrid(<< >>, rows, columns)
  IN UNION {{LET made == makeInitialGrid(<< >>, rows, columns, lvl, shuffled, nums)
             IN View(made.heap, made.ref) :
               nums \in [Draws(PairsPerLevel * lvl, shuffled) -> FirstNums]} :
            shuffled \in Shuffles(availableSpaces(empty.heap, empty.ref))}

\* initialGrids, tabulated once for the boards and levels explored
InitialGridTable ==
  [b \in Boards \X (1..Max(MaxLevelExplored, MaxLevelSimple)) |->
     initialGrids(b[1][1], b[1][2], b[2])]

\* useEffect(() => setGrid(makeInitialGrid(rows, columns, level)), [rows, columns, level])
GridEffect(rows, columns, lvl) == grid' \in InitialGridTable[<<<<rows, columns>>, lvl>>]

\* clearMatched without the assignment to the selected cell
clearMatched_onlyClicked(h, g, first, second) ==
  LET newGrid == Len(h) + 1
      h1 == Append(h, h[g])
  IN [heap |-> SetCell(h1, newGrid, second, Undefined), ref |-> newGrid]

\* const newGrid = [...grid]; newGrid[selectedCell.row][selectedCell.column] = undefined;
\* newGrid[row][column] = undefined
clearMatched(h, g, first, second) ==
  LET newGrid == Len(h) + 1
      h1 == Append(h, h[g])
      h2 == SetCell(h1, newGrid, first, Undefined)
      h3 == SetCell(h2, newGrid, second, Undefined)
  IN [heap |-> h3, ref |-> newGrid]

\* clickBranch with firstValue + secondValue >= 10 as the test for a match
clickBranch_atLeastTen(gridValue, selected, row, column) ==
  IF isEmpty(CellAt(gridValue, row, column)) THEN "clickEmpty"
  ELSE IF selected # NoCell /\ selected.row = row /\ selected.column = column
  THEN "deselect"
  ELSE IF selected = NoCell THEN "select"
  ELSE IF ~(selected.row < Len(gridValue)) THEN "typeError"
  ELSE LET firstValue == IF selected.column < Len(gridValue[selected.row + 1])
                         THEN CellAt(gridValue, selected.row, selected.column)
                         ELSE Undefined
           secondValue == CellAt(gridValue, row, column)
       IN IF firstValue = Undefined THEN "internalError"
          ELSE IF secondValue = Undefined THEN "secondNull"
          ELSE IF firstValue + secondValue >= 10 THEN "match"
          ELSE "mismatch"

\* clickBranch without the check for a click on an empty cell
clickBranch_noEmptyCheck(gridValue, selected, row, column) ==
  IF selected # NoCell /\ selected.row = row /\ selected.column = column
  THEN "deselect"
  ELSE IF selected = NoCell THEN "select"
  ELSE IF ~(selected.row < Len(gridValue)) THEN "typeError"
  ELSE LET firstValue == IF selected.column < Len(gridValue[selected.row + 1])
                         THEN CellAt(gridValue, selected.row, selected.column)
                         ELSE Undefined
           secondValue == CellAt(gridValue, row, column)
       IN IF firstValue = Undefined THEN "internalError"
          ELSE IF secondValue = Undefined THEN "secondNull"
          ELSE IF firstValue + secondValue = 10 THEN "match"
          ELSE "mismatch"

\* clickBranch without the check for a click on the selected cell
clickBranch_noDeselect(gridValue, selected, row, column) ==
  IF isEmpty(CellAt(gridValue, row, column)) THEN "clickEmpty"
  ELSE IF selected = NoCell THEN "select"
  ELSE IF ~(selected.row < Len(gridValue)) THEN "typeError"
  ELSE LET firstValue == IF selected.column < Len(gridValue[selected.row + 1])
                         THEN CellAt(gridValue, selected.row, selected.column)
                         ELSE Undefined
           secondValue == CellAt(gridValue, row, column)
       IN IF firstValue = Undefined THEN "internalError"
          ELSE IF secondValue = Undefined THEN "secondNull"
          ELSE IF firstValue + secondValue = 10 THEN "match"
          ELSE "mismatch"

\* the branch handleCellClick takes
clickBranch(gridValue, selected, row, column) ==
  IF isEmpty(CellAt(gridValue, row, column)) THEN "clickEmpty"
  ELSE IF selected # NoCell /\ selected.row = row /\ selected.column = column
  THEN "deselect"
  ELSE IF selected = NoCell THEN "select"
  ELSE IF ~(selected.row < Len(gridValue)) THEN "typeError"
  ELSE LET firstValue == IF selected.column < Len(gridValue[selected.row + 1])
                         THEN CellAt(gridValue, selected.row, selected.column)
                         ELSE Undefined
           secondValue == CellAt(gridValue, row, column)
       IN IF firstValue = Undefined THEN "internalError"
          ELSE IF secondValue = Undefined THEN "secondNull"
          ELSE IF firstValue + secondValue = 10 THEN "match"
          ELSE "mismatch"

\* the grid and the selection App holds after handleCellClick(row, column)
handleCellClick(gridValue, selected, row, column) ==
  LET branch == clickBranch(gridValue, selected, row, column)
  IN [selectedCell |-> CASE branch \in {"clickEmpty", "deselect", "match"} -> NoCell
                         [] branch = "select" -> CellIndex(row, column)
                         [] OTHER -> selected,
      grid |-> IF branch = "match"
               THEN LET loaded == LoadGrid(gridValue)
                        cleared == clearMatched(loaded.heap, loaded.ref,
                                                selected, CellIndex(row, column))
                    IN View(cleared.heap, cleared.ref)
               ELSE gridValue]

\* the heap after the match branch of handleCellClick: old is the grid object
\* that was the state when the handler ran, new the one it passes to setGrid
matchOnHeap(gridValue, selected, row, column) ==
  LET loaded == LoadGrid(gridValue)
      cleared == clearMatched(loaded.heap, loaded.ref, selected, CellIndex(row, column))
  IN [heap |-> cleared.heap, old |-> loaded.ref, new |-> cleared.ref]

\* the cells gridDiv renders, each with an onClick
Clickable(gridValue) ==
  IF isWon(gridValue) THEN {}
  ELSE {CellIndex(i - 1, j - 1) : i \in 1..Len(gridValue), j \in 1..Len(gridValue[1])}

HandleCellClick(row, column) ==
  /\ CellIndex(row, column) \in Clickable(grid)
  /\ LET after == handleCellClick(grid, selectedCell, row, column)
     IN /\ grid' = after.grid
        /\ selectedCell' = after.selectedCell
  /\ UNCHANGED <<numberOfRows, numberOfColumns, level, call, timer>>

\* the contents the setInterval callback can pass to setGrid
spawned(gridValue) ==
  LET loaded == LoadGrid(gridValue)
  IN UNION {{LET added == addRandomPairs(loaded.heap, loaded.ref, 1, shuffled, nums)
             IN View(added.heap, added.ref) :
               nums \in [Draws(1, shuffled) -> FirstNums]} :
            shuffled \in Shuffles(availableSpaces(loaded.heap, loaded.ref))}

\* the setInterval callback without its isWon check
tickCallback_noWonCheck(gridValue, selected) ==
  {[grid |-> g, selectedCell |-> selected] : g \in spawned(gridValue)}

\* the setInterval callback, clearing the selection as well
tickCallback_clearsSelection(gridValue, selected) ==
  IF ~isWon(gridValue)
  THEN {[grid |-> g, selectedCell |-> NoCell] : g \in spawned(gridValue)}
  ELSE {[grid |-> gridValue, selectedCell |-> NoCell]}

\* the grid and the selection App can hold after the setInterval callback
tickCallback(gridValue, selected) ==
  IF ~isWon(gridValue)
  THEN {[grid |-> g, selectedCell |-> selected] : g \in spawned(gridValue)}
  ELSE {[grid |-> gridValue, selectedCell |-> selected]}

Tick ==
  /\ \E after \in tickCallback(grid, selectedCell) :
       /\ grid' = after.grid
       /\ selectedCell' = after.selectedCell
  /\ UNCHANGED <<numberOfRows, numberOfColumns, level, call, timer>>

HandleChangeRows(rows) ==
  /\ rows \in RowChoices(numberOfColumns)
  /\ rows # numberOfRows
  /\ numberOfRows' = rows
  /\ GridEffect(rows, numberOfColumns, level)
  /\ UNCHANGED <<numberOfColumns, level, selectedCell, call, timer>>

HandleChangeColumns(columns) ==
  /\ columns \in ColumnChoices(numberOfRows)
  /\ columns # numberOfColumns
  /\ numberOfColumns' = columns
  /\ GridEffect(numberOfRows, columns, level)
  /\ UNCHANGED <<numberOfRows, level, selectedCell, call, timer>>

HandleChangeLevel(lvl) ==
  /\ lvl \in LevelChoices
  /\ lvl # level
  /\ level' = lvl
  /\ GridEffect(numberOfRows, numberOfColumns, lvl)
  /\ UNCHANGED <<numberOfRows, numberOfColumns, selectedCell, call, timer>>

\* the level the first button of youWonDiv passes to setLevel
nextLevel(lvl) == lvl + (IF lvl < MAX_LEVEL THEN 1 ELSE 0)

LevelUp ==
  /\ isWon(grid)
  /\ nextLevel(level) <= MaxLevelExplored
  /\ level' = nextLevel(level)
  /\ IF level' # level
     THEN GridEffect(numberOfRows, numberOfColumns, level')
     ELSE grid' = grid
  /\ UNCHANGED <<numberOfRows, numberOfColumns, selectedCell, call, timer>>

\* the second button of youWonDiv
Restart ==
  /\ isWon(grid)
  /\ GridEffect(numberOfRows, numberOfColumns, level)
  /\ UNCHANGED <<numberOfRows, numberOfColumns, level, selectedCell, call, timer>>

\* the state after mount, on a board of the explored sizes
Init ==
  /\ numberOfRows \in 1..MaxRows
  /\ numberOfColumns \in ColumnChoices(numberOfRows)
  /\ level = 1
  /\ grid \in InitialGridTable[<<<<numberOfRows, numberOfColumns>>, level>>]
  /\ selectedCell = NoCell
  /\ call = NoCall
  /\ timer = NoTimer

Next ==
  \/ \E row \in 0..(MaxRows - 1), column \in 0..(MaxCells - 1) : HandleCellClick(row, column)
  \/ Tick
  \/ \E rows \in 1..MaxRows : HandleChangeRows(rows)
  \/ \E columns \in 1..MaxCells : HandleChangeColumns(columns)
  \/ \E lvl \in LevelChoices : HandleChangeLevel(lvl)
  \/ LevelUp
  \/ Restart

Spec == Init /\ [][Next]_vars

----------------------------------------------------------------------------
(* The controller of src/unnamed/part_000 at the granularity of renders.   *)
(* A setGrid call made by an effect is rendered in a later step, and the   *)
(* interval that is live until that render can fire before it.  timer.grid *)
(* is the grid the callback of the live interval closes over, timer.queue  *)
(* the grids passed to setGrid and not yet rendered.  The other setGrid    *)
(* calls are rendered, with their effects, in the step that makes them.    *)

\* the grid the latest setGrid call holds
LatestGrid == IF timer.queue = << >> THEN grid ELSE timer.queue[Len(timer.queue)]

\* the grid effect of a render with new dimensions or a new level: its setGrid
\* waits for the next render; the interval of that render (the old one, or a
\* new one if the level changed) closes over the grid of that render
QueueGridEffect(rows, columns, lvl) ==
  \E g \in InitialGridTable[<<<<rows, columns>>, lvl>>] :
    timer' = [timer EXCEPT !.queue = Append(@, g)]

TimerHandleCellClick(row, column) ==
  /\ timer.queue = << >>
  /\ CellIndex(row, column) \in Clickable(grid)
  /\ LET after == handleCellClick(grid, selectedCell, row, column)
     IN /\ grid' = after.grid
        /\ selectedCell' = after.selectedCell
        /\ timer' = [timer EXCEPT !.grid = after.grid]
  /\ UNCHANGED <<numberOfRows, numberOfColumns, level, call>>

\* the callback of the live interval: it reads the grid it closes over
TimerTick ==
  /\ ~isWon(timer.grid)
  /\ \E g \in spawned(timer.grid) :
       IF timer.queue = << >>
       THEN grid' = g /\ timer' = [timer EXCEPT !.grid = g]
       ELSE /\ Len(timer.queue) < MaxQueued
            /\ grid' = grid
            /\ timer' = [timer EXCEPT !.queue = Append(@, g)]
  /\ UNCHANGED <<numberOfRows, numberOfColumns, level, selectedCell, call>>

TimerHandleChangeRows(rows) ==
  /\ timer.queue = << >>
  /\ rows \in RowChoices(numberOfColumns)
  /\ rows # numberOfRows
  /\ numberOfRows' = rows
  /\ QueueGridEffect(rows, numberOfColumns, level)
  /\ UNCHANGED <<numberOfColumns, level, grid, selectedCell, call>>

TimerHandleChangeColumns(columns) ==
  /\ timer.queue = << >>
  /\ columns \in ColumnChoices(numberOfRows)
  /\ columns # numberOfColumns
  /\ numberOfColumns' = columns
  /\ QueueGridEffect(numberOfRows, columns, level)
  /\ UNCHANGED <<numberOfRows, level, grid, selectedCell, call>>

TimerHandleChangeLevel(lvl) ==
  /\ timer.queue = << >>
  /\ lvl \in LevelChoices
  /\ lvl # level
  /\ level' = lvl
  /\ QueueGridEffect(numberOfRows, numberOfColumns, lvl)
  /\ UNCHANGED <<numberOfRows, numberOfColumns, grid, selectedCell, call>>

TimerLevelUp ==
  /\ timer.queue = << >>
  /\ isWon(grid)
  /\ nextLevel(level) <= MaxLevelExplored
  /\ nextLevel(level) # level
  /\ level' = nextLevel(level)
  /\ QueueGridEffect(numberOfRows, numberOfColumns, level')
  /\ UNCHANGED <<numberOfRows, numberOfColumns, grid, selectedCell, call>>

TimerRestart ==
  /\ timer.queue = << >>
  /\ isWon(grid)
  /\ GridEffect(numberOfRows, numberOfColumns, level)
  /\ timer' = [timer EXCEPT !.grid = grid']
  /\ UNCHANGED <<numberOfRows, numberOfColumns, level, selectedCell, call>>

\* the render of the queued setGrid calls, in their order, and its effects:
\* the interval is cleared and a new one closes over the rendered grid
TimerRender ==
  /\ timer.queue # << >>
  /\ grid' = timer.queue[Len(timer.queue)]
  /\ timer' = [grid |-> grid', queue |-> << >>]
  /\ UNCHANGED <<numberOfRows, numberOfColumns, level, selectedCell, call>>

TimerInit ==
  /\ numberOfRows \in 1..MaxRows
  /\ numberOfColumns \in ColumnChoices(numberOfRows)
  /\ level = 1
  /\ grid \in InitialGridTable[<<<<numberOfRows, numberOfColumns>>, level>>]
  /\ selectedCell = NoCell
  /\ call = NoCall
  /\ timer = [grid |-> grid, queue |-> << >>]

TimerNext ==
  \/ \E row \in 0..(MaxRows - 1), column \in 0..(MaxCells - 1) :
       TimerHandleCellClick(row, column)
  \/ TimerTick
  \/ \E rows \in 1..MaxRows : TimerHandleChangeRows(rows)
  \/ \E columns \in 1..MaxCells : TimerHandleChangeColumns(columns)
  \/ \E lvl \in LevelChoices : TimerHandleChangeLevel(lvl)
  \/ TimerLevelUp
  \/ TimerRestart
  \/ TimerRender

SpecTimer == TimerInit /\ [][TimerNext]_vars

----------------------------------------------------------------------------
(* The controller of src/src/App.tsx: the same grid functions, click        *)
(* handler, timer and rebuild effect; a level select with three options, a *)
(* win view whose button raises the level, and no restart button           *)

SimpleLevelChoices == 1..SIMPLE_MAX_LEVEL

HandleChangeLevelSimple(lvl) ==
  /\ lvl \in SimpleLevelChoices
  /\ lvl # level
  /\ level' = lvl
  /\ GridEffect(numberOfRows, numberOfColumns, lvl)
  /\ UNCHANGED <<numberOfRows, numberOfColumns, selectedCell, call, timer>>

\* the level the button of youWonDiv passes to setLevel
nextLevelSimple(lvl) == lvl + 1

LevelUpSimple ==
  /\ isWon(grid)
  /\ nextLevelSimple(level) <= MaxLevelSimple
  /\ level' = nextLevelSimple(level)
  /\ GridEffect(numberOfRows, numberOfColumns, level')
  /\ UNCHANGED <<numberOfRows, numberOfColumns, selectedCell, call, timer>>

NextSimple ==
  \/ \E row \in 0..(MaxRows - 1), column \in 0..(MaxCells - 1) : HandleCellClick(row, column)
  \/ Tick
  \/ \E rows \in 1..MaxRows : HandleChangeRows(rows)
  \/ \E columns \in 1..MaxCells : HandleChangeColumns(columns)
  \/ \E lvl \in SimpleLevelChoices : HandleChangeLevelSimple(lvl)
  \/ LevelUpSimple

SpecSimple == Init /\ [][NextSimple]_vars

----------------------------------------------------------------------------
(* Harness: one call of addRandomPairs on a grid of the explored sizes, or  *)
(* one call of makeEmptyGrid with dimensions that may be zero or negative  *)

\* grids of rows x columns cells, each empty or holding one of FirstNums
InputGrids(rows, columns) ==
  [1..rows -> [1..columns -> FirstNums \cup {Undefined}]]

\* numPairs: a count, or Undefined when the argument is omitted
CallInput(gridValue, numPairs) ==
  LET loaded == LoadGrid(gridValue)
  IN [fn |-> "input", heap |-> loaded.heap, grid |-> loaded.ref, numPairs |-> numPairs,
      rows |-> 0, columns |-> 0, level |-> 0,
      after |-> loaded.heap, result |-> loaded.ref, thrown |-> "none"]

CallAddRandomPairs ==
  /\ call.fn = "input"
  /\ \E shuffled \in Shuffles(availableSpaces(call.heap, call.grid)) :
       \E nums \in [Draws(call.numPairs, shuffled) -> FirstNums] :
         LET added == addRandomPairs(call.heap, call.grid, call.numPairs, shuffled, nums)
         IN call' = [call EXCEPT !.fn = "addRandomPairs",
                                 !.after = added.heap, !.result = added.ref]
  /\ UNCHANGED <<numberOfRows, numberOfColumns, level, grid, selectedCell, timer>>

\* the arguments of one call of makeEmptyGrid
EmptyInput(rows, columns) ==
  [fn |-> "emptyInput", heap |-> << >>, grid |-> 0, numPairs |-> 0,
   rows |-> rows, columns |-> columns, level |-> 0,
   after |-> << >>, result |-> 0, thrown |-> "none"]

CallMakeEmptyGrid ==
  /\ call.fn = "emptyInput"
  /\ IF makeEmptyGridThrows(call.rows, call.columns)
     THEN call' = [call EXCEPT !.fn = "makeEmptyGrid", !.thrown = "RangeError"]
     ELSE LET made == makeEmptyGrid(call.heap, call.rows, call.columns)
          IN call' = [call EXCEPT !.fn = "makeEmptyGrid",
                                  !.after = made.heap, !.result = made.ref]
  /\ UNCHANGED <<numberOfRows, numberOfColumns, level, grid, selectedCell, timer>>

PairsInit ==
  /\ timer = NoTimer
  /\ numberOfRows = 0
  /\ numberOfColumns = 0
  /\ level = 1
  /\ grid = << >>
  /\ selectedCell = NoCell
  /\ \/ \E b \in Boards, numPairs \in (0..MaxNumPairs) \cup {Undefined} :
          \E gridValue \in InputGrids(b[1], b[2]) :
            call = CallInput(gridValue, numPairs)
     \/ \E rows \in (0 - 1)..MaxRows, columns \in (0 - 1)..MaxCells :
          call = EmptyInput(rows, columns)

PairsNext == CallAddRandomPairs \/ CallMakeEmptyGrid

SpecPairs == PairsInit /\ [][PairsNext]_vars

----------------------------------------------------------------------------
(* Harness: the controller, and beside it one call of makeInitialGrid on a *)
(* board with room for more pairs than level 1 asks for                    *)

WideRows == 2
WideColumns == 4

\* the orders explored on the wide board: the rotations of the row-major order
Rotations(spaces) ==
  {[i \in 1..Len(spaces) |-> spaces[((i + k - 1) % Len(spaces)) + 1]] :
     k \in 0..(Len(spaces) - 1)}

InitialInput(rows, columns, lvl) ==
  [fn |-> "initialInput", heap |-> << >>, grid |-> 0, numPairs |-> 0,
   rows |-> rows, columns |-> columns, level |-> lvl,
   after |-> << >>, result |-> 0, thrown |-> "none"]

CallMakeInitialGrid ==
  /\ call.fn = "initialInput"
  /\ LET empty == makeEmptyGrid(call.heap, call.rows, call.columns)
     IN \E shuffled \in Rotations(availableSpaces(empty.heap, empty.ref)) :
          \E nums \in [Draws(PairsPerLevel * call.level, shuffled) -> FirstNums] :
            LET made == makeInitialGrid(call.heap, call.rows, call.columns, call.level,
                                        shuffled, nums)
            IN call' = [call EXCEPT !.fn = "makeInitialGrid",
                                    !.after = made.heap, !.result = made.ref]
  /\ UNCHANGED <<numberOfRows, numberOfColumns, level, grid, selectedCell, timer>>

WideInit ==
  /\ timer = NoTimer
  /\ numberOfRows = 0
  /\ numberOfColumns = 0
  /\ level = 1
  /\ grid = << >>
  /\ selectedCell = NoCell
  /\ call = InitialInput(WideRows, WideColumns, 1)

RebuildInit == Init \/ WideInit

RebuildNext ==
  \/ call = NoCall /\ Next
  \/ CallMakeInitialGrid

SpecRebuild == RebuildInit /\ [][RebuildNext]_vars

----------------------------------------------------------------------------
(* Vocabulary of the properties *)

Positions(gridValue) ==
  {CellIndex(i - 1, j - 1) : i \in 1..Len(gridValue), j \in 1..Len(gridValue[1])}

Value(gridValue, pos) == gridValue[pos.row + 1][pos.column + 1]

Tokens(gridValue) == {pos \in Positions(gridValue) : Value(gridValue, pos) # Undefined}

EmptyCount(gridValue) == Cardinality(Positions(gridValue) \ Tokens(gridValue))

\* the values at the positions P can be split into pairs that sum to 10
Pairable(gridValue, P) ==
  /\ \A v \in 0..10 :
       Cardinality({pos \in P : Value(gridValue, pos) = v}) =
       Cardinality({pos \in P : Value(gridValue, pos) = 10 - v})
  /\ Cardinality({pos \in P : Value(gridValue, pos) = 5}) % 2 = 0
  /\ \A pos \in P : Value(gridValue, pos) \in 0..10

SameShape(g1, g2) ==
  /\ Len(g1) = Len(g2)
  /\ \A i \in 1..Len(g1) : Len(g1[i]) = Len(g2[i])

\* after holds n more pairs than before, and is before everywhere else
AddedPairs(before, after, n) ==
  /\ SameShape(before, after)
  /\ \A pos \in Tokens(before) : Value(after, pos) = Value(before, pos)
  /\ Cardinality(Tokens(after) \ Tokens(before)) = 2 * n
  /\ Pairable(after, Tokens(after) \ Tokens(before))

\* the argument and the result of the call, before and after it
CallArgBefore == View(call.heap, call.grid)
CallArgAfter == View(call.after, call.grid)
CallResult == View(call.after, call.result)

----------------------------------------------------------------------------
(* Properties of addRandomPairs (under SpecPairs) *)

\* C1: for every grid G and every pair count n >= 0 with 2n <= emptyCount(G),
\* addRandomPairs(G, n) returns a grid with exactly 2n fewer empty cells than G,
\* and the newly filled cells can be split into n pairs each summing to 10,
\* whatever the shuffle and the draws.
C1_PairsAdded ==
  (call.fn = "addRandomPairs" /\ call.numPairs # Undefined
     /\ 2 * call.numPairs <= EmptyCount(CallArgBefore))
  => /\ SameShape(CallArgBefore, CallResult)
     /\ EmptyCount(CallResult) = EmptyCount(CallArgBefore) - 2 * call.numPairs
     /\ Cardinality(Tokens(CallResult) \ Tokens(CallArgBefore)) = 2 * call.numPairs
     /\ Pairable(CallResult, Tokens(CallResult) \ Tokens(CallArgBefore))

\* a call that placed two pairs on a grid that had room for them
C1_Witness ==
  /\ call.fn = "addRandomPairs"
  /\ call.numPairs = 2
  /\ EmptyCount(CallArgBefore) >= 4
  /\ EmptyCount(CallResult) = EmptyCount(CallArgBefore) - 4

\* C2: addRandomPairs never mutates its input grid: after the call, for every
\* pair count and every outcome, every array of the input grid holds what it
\* held before, and the result is a distinct grid object that shares no row
\* with the input.
C2_InputNotMutated ==
  call.fn = "addRandomPairs"
  => /\ \A a \in 1..Len(call.heap) : call.after[a] = call.heap[a]
     /\ CallArgAfter = CallArgBefore
     /\ call.result # call.grid
     /\ \A i \in 1..Len(call.after[call.result]) :
          \A j \in 1..Len(call.heap[call.grid]) :
            call.after[call.result][i] # call.heap[call.grid][j]

\* a call that wrote a pair into its result
C2_Witness ==
  /\ call.fn = "addRandomPairs"
  /\ CallResult # CallArgBefore
  /\ CallArgAfter = CallArgBefore

\* C11: isWon(grid) is true if and only if every cell of the grid is empty; in
\* particular isWon(makeEmptyGrid(r, c)) is true for all r, c >= 1, and a grid
\* holding a token of value 0 is not won.
C11_WonIffAllEmpty ==
  /\ call.fn \in {"input", "addRandomPairs"}
     => \A g \in {CallArgBefore, CallResult} :
          /\ isWon(g) <=> (\A pos \in Positions(g) : Value(g, pos) = Undefined)
          /\ (\E pos \in Positions(g) : Value(g, pos) = 0) => ~isWon(g)
  /\ (call.fn = "makeEmptyGrid" /\ call.rows >= 1 /\ call.columns >= 1)
     => /\ call.thrown = "none"
        /\ Len(CallResult) = call.rows
        /\ \A i \in 1..call.rows : Len(CallResult[i]) = call.columns
        /\ isWon(CallResult)

\* an empty grid, won, into which addRandomPairs wrote a token 0: the result
\* is not won
C11_Witness ==
  /\ call.fn = "addRandomPairs"
  /\ isWon(CallArgBefore)
  /\ \E pos \in Tokens(CallResult) : Value(CallResult, pos) = 0
  /\ ~isWon(CallResult)

\* C12: when the grid has fewer than 2 * numPairs empty cells, addRandomPairs
\* places exactly floor(emptyCount / 2) complete pairs and never a single
\* unpaired token: with an odd number of empty cells exactly one cell stays
\* empty, and a grid with exactly one empty cell is returned with unchanged
\* content, whatever the pair count (given or omitted).
C12_FillsWithWholePairs ==
  call.fn = "addRandomPairs"
  => /\ (call.numPairs # Undefined /\ EmptyCount(CallArgBefore) < 2 * call.numPairs)
        => /\ AddedPairs(CallArgBefore, CallResult, EmptyCount(CallArgBefore) \div 2)
           /\ EmptyCount(CallResult) = EmptyCount(CallArgBefore) % 2
     /\ EmptyCount(CallArgBefore) = 1 => CallResult = CallArgBefore

\* two pairs asked for with three cells free: one pair placed, one cell left
C12_Witness ==
  /\ call.fn = "addRandomPairs"
  /\ call.numPairs = 2
  /\ EmptyCount(CallArgBefore) = 3
  /\ EmptyCount(CallResult) = 1

\* C13: makeEmptyGrid(rows, columns) fails whenever rows <= 0 or columns <= 0,
\* and no Grid value is constructed from such dimensions.
C13_InvalidDimensionRejected ==
  (call.fn = "makeEmptyGrid" /\ (call.rows <= 0 \/ call.columns <= 0))
  => call.thrown # "none"

----------------------------------------------------------------------------
(* Properties of the controller (under Spec) *)

HoldsToken(gridValue, pos) ==
  pos \in Positions(gridValue) /\ Value(gridValue, pos) # Undefined

\* pos is a non-empty cell other than the selected one, and the selected cell
\* holds a token too
SecondClick(pos) ==
  /\ selectedCell # NoCell
  /\ selectedCell # pos
  /\ HoldsToken(grid, pos)
  /\ HoldsToken(grid, selectedCell)

RebuildStep ==
  \/ numberOfRows' # numberOfRows
  \/ numberOfColumns' # numberOfColumns
  \/ level' # level

\* gridValue is a rows x columns grid holding exactly n complementary pairs
HoldsExactlyPairs(gridValue, rows, columns, n) ==
  /\ Len(gridValue) = rows
  /\ \A i \in 1..rows : Len(gridValue[i]) = columns
  /\ Cardinality(Tokens(gridValue)) = 2 * n
  /\ Pairable(gridValue, Tokens(gridValue))

\* the grid and the selection after a click on pos
AfterClick(pos) == handleCellClick(grid, selectedCell, pos.row, pos.column)

\* C3: in handleCellClick, when a selection exists and the clicked cell is a
\* different non-empty cell whose value plus the selected cell's value is 10,
\* the resulting grid has both positions empty and every other cell unchanged,
\* and the selection is cleared.
C3_MatchClearsBoth ==
  \A pos \in Clickable(grid) :
    (SecondClick(pos) /\ Value(grid, pos) + Value(grid, selectedCell) = 10)
    => /\ AfterClick(pos).selectedCell = NoCell
       /\ SameShape(grid, AfterClick(pos).grid)
       /\ \A q \in Positions(grid) :
            Value(AfterClick(pos).grid, q) = IF q \in {pos, selectedCell} THEN Undefined
                                             ELSE Value(grid, q)

\* a board of four cells after a match: two cells cleared, two tokens left,
\* nothing selected (a rebuild fills such a board, a tick only adds tokens)
C3_Witness ==
  /\ numberOfRows * numberOfColumns = 4
  /\ Cardinality(Tokens(grid)) = 2
  /\ selectedCell = NoCell

\* C4: in handleCellClick, when a selection exists and the clicked cell is a
\* different non-empty cell whose value plus the selected cell's value is not
\* 10, the grid is unchanged and the selection stays where it was.
C4_MismatchKeeps ==
  \A pos \in Clickable(grid) :
    (SecondClick(pos) /\ Value(grid, pos) + Value(grid, selectedCell) # 10)
    => /\ AfterClick(pos).grid = grid
       /\ AfterClick(pos).selectedCell = selectedCell

\* a token is selected and another token does not sum to 10 with it: the state
\* a mismatching click starts from and ends in
C4_Witness ==
  \E pos \in Clickable(grid) :
    /\ SecondClick(pos)
    /\ Value(grid, pos) + Value(grid, selectedCell) # 10

\* C5: from any reachable state, clicking an empty cell results in no
\* selection, whatever the selection was, and leaves the grid unchanged.
C5_EmptyClickClears ==
  \A pos \in Clickable(grid) :
    Value(grid, pos) = Undefined
    => (AfterClick(pos).selectedCell = NoCell /\ AfterClick(pos).grid = grid)

\* a token is selected while the grid shows an empty cell to click
C5_Witness ==
  /\ HoldsToken(grid, selectedCell)
  /\ \E pos \in Clickable(grid) : Value(grid, pos) = Undefined

\* the selection after two clicks in a row on pos
AfterTwoClicks(pos) ==
  LET first == handleCellClick(grid, selectedCell, pos.row, pos.column)
  IN handleCellClick(first.grid, first.selectedCell, pos.row, pos.column).selectedCell

\* pos is non-empty at the first click and at the second
TwiceClickable(pos) ==
  /\ pos \in Clickable(grid)
  /\ HoldsToken(grid, pos)
  /\ HoldsToken(handleCellClick(grid, selectedCell, pos.row, pos.column).grid, pos)

\* C6 as claimed: clicking the same non-empty cell twice in a row, with no
\* other event between the two clicks, leaves the selection at none.
C6_TwiceClearsAlways ==
  \A pos \in Positions(grid) : TwiceClickable(pos) => AfterTwoClicks(pos) = NoCell

\* C6 amended: when no cell is selected before the first click, clicking the
\* same non-empty cell twice in a row leaves the selection at none.
C6_TwiceClearsFromIdle ==
  selectedCell = NoCell
  => \A pos \in Positions(grid) : TwiceClickable(pos) => AfterTwoClicks(pos) = NoCell

\* nothing is selected and the first of the two clicks selects a token
C6_Witness ==
  /\ selectedCell = NoCell
  /\ \E pos \in Positions(grid) :
       /\ TwiceClickable(pos)
       /\ handleCellClick(grid, selectedCell, pos.row, pos.column).selectedCell = pos

C8_RebuildResetsSelection ==
  [][RebuildStep => selectedCell' = NoCell]_vars

\* C9 as claimed: whenever a spawn tick fires while the grid is not won,
\* exactly one new pair is added to the current grid and the selection is left
\* unchanged.
C9_TickAddsOnePair ==
  ~isWon(grid)
  => \A after \in tickCallback(grid, selectedCell) :
       AddedPairs(grid, after.grid, 1) /\ after.selectedCell = selectedCell

\* C9 amended: whenever a spawn tick fires while the grid is not won, exactly
\* one new pair is added to the current grid if it has at least two empty
\* cells, and otherwise the grid keeps its content; the selection is left
\* unchanged.
C9_TickAddsOnePairIfRoom ==
  ~isWon(grid)
  => \A after \in tickCallback(grid, selectedCell) :
       /\ AddedPairs(grid, after.grid, IF EmptyCount(grid) >= 2 THEN 1 ELSE 0)
       /\ after.selectedCell = selectedCell

\* a grid that is not won and has room for a pair, with a token selected
C9_Witness ==
  /\ ~isWon(grid)
  /\ EmptyCount(grid) >= 2
  /\ HoldsToken(grid, selectedCell)

\* C10: when the grid is won, a spawn tick changes nothing: the grid stays
\* completely empty (and the selection as it is), so the board remains won.
C10_TickOnWonBoard ==
  isWon(grid)
  => \A after \in tickCallback(grid, selectedCell) :
       after.grid = grid /\ isWon(after.grid) /\ after.selectedCell = selectedCell

\* a won board with room for a pair
C10_Witness ==
  /\ isWon(grid)
  /\ EmptyCount(grid) >= 2

\* pos is a token to click while another position is selected
ComparedWith(pos) ==
  /\ pos \in Clickable(grid)
  /\ selectedCell # NoCell
  /\ selectedCell # pos
  /\ Value(grid, pos) # Undefined

\* C14: the match operation in handleCellClick never mutates a Grid in place:
\* the grid object that was the controller's state before a successful match
\* (and each of its rows) still holds its two matched tokens afterwards, the
\* cleared cells appearing only in the new grid object.
C14_MatchKeepsOldGrid ==
  \A pos \in Clickable(grid) :
    (SecondClick(pos) /\ Value(grid, pos) + Value(grid, selectedCell) = 10)
    => LET m == matchOnHeap(grid, selectedCell, pos.row, pos.column)
       IN /\ View(m.heap, m.old) = grid
          /\ View(m.heap, m.new) = AfterClick(pos).grid
          /\ m.new # m.old

\* C15: in every reachable state a selection, when present, designates a
\* non-empty cell; so the two-cell compare step of handleCellClick is never
\* reached with the selected cell empty.
C15_SelectionHoldsToken ==
  /\ selectedCell \in Positions(grid) => Value(grid, selectedCell) # Undefined
  /\ \A pos \in Clickable(grid) :
       (ComparedWith(pos) /\ selectedCell \in Positions(grid))
       => clickBranch(grid, selectedCell, pos.row, pos.column) # "internalError"

\* C16: in every reachable state, including after the grid is rebuilt with
\* fewer rows or columns, the selected position (when present) satisfies
\* 0 <= row < rows and 0 <= column < columns of the current grid, so
\* handleCellClick never indexes the grid outside its bounds.
C16_SelectionInBounds ==
  selectedCell # NoCell
  => /\ 0 <= selectedCell.row /\ selectedCell.row < Len(grid)
     /\ 0 <= selectedCell.column /\ selectedCell.column < Len(grid[1])

\* C17: if handleCellClick reaches the two-cell compare step while the cell
\* at the stored selection holds no value, the click is ignored without a
\* crash: the handler completes normally (it runs to the return after its
\* console.error) and both the grid and the selection are unchanged.
C17_InconsistencyIgnored ==
  \A pos \in Clickable(grid) :
    (ComparedWith(pos) /\ ~HoldsToken(grid, selectedCell))
    => /\ clickBranch(grid, selectedCell, pos.row, pos.column) = "internalError"
       /\ AfterClick(pos).grid = grid
       /\ AfterClick(pos).selectedCell = selectedCell

\* C18: in every reachable state the level is an integer between 1 and the
\* maximum level offered by the level selector (3 in src/src/App.tsx):
\* advancing the level from the win state any number of times never raises it
\* above that maximum.
C18_LevelWithinSelector ==
  level \in SimpleLevelChoices

\* the grid keeps the shape and every token of the grid before
Extends(before, after) ==
  /\ SameShape(before, after)
  /\ \A pos \in Tokens(before) : Value(after, pos) = Value(before, pos)

\* C19: a stale spawn timer never mutates a superseded state: under any
\* interleaving of clicks, rebuilds and ticks, the grid a firing tick passes to
\* setGrid extends the grid of the latest setGrid call, so a tick never
\* overwrites the result of a match or rebuild made after its timer was set;
\* once every setGrid call is rendered, the grid is the one of the latest
\* rebuild or an extension of it, with the selected dimensions.
C19_TickExtendsCurrentGrid ==
  /\ ~isWon(timer.grid) => \A g \in spawned(timer.grid) : Extends(LatestGrid, g)
  /\ timer.queue = << >>
     => /\ Len(grid) = numberOfRows
        /\ \A i \in 1..Len(grid) : Len(grid[i]) = numberOfColumns

\* C20: in every state reachable by rebuilds, spawn ticks and clicks, the
\* tokens on the grid can be partitioned into pairs summing to 10: for each
\* value v there are as many tokens v as tokens 10 - v, and the number of 5s
\* is even.
C20_Solvable ==
  call = NoCall => Pairable(grid, Tokens(grid))

\* level 2, reached by a rebuild; a board of four cells, which a rebuild
\* fills, with one pair matched away; and a token selected after that match
C20_Witness ==
  /\ level = 2
  /\ numberOfRows * numberOfColumns = 4
  /\ Cardinality(Tokens(grid)) = 2
  /\ HoldsToken(grid, selectedCell)

====
